---- MODULE Spec2Model ----
(***************************************************************************)
(* Certificate and certificate-request management of OpenList:             *)
(* internal/op/certificate.go (the service layer) called by                *)
(* server/handles (the HTTP handlers), over the two tables of internal/db. *)
(* Every storage call commits on its own, so a handler is a sequence of    *)
(* steps, one per storage call; the code between two storage calls is      *)
(* local to the handler and belongs to the step of the call before it.     *)
(***************************************************************************)
EXTENDS Integers, Sequences, FiniteSets, TLC

\* ---------------------------------------------------------------- bounds
MaxCerts == 2
MaxReqs == 2
MaxRows == 3
MaxClock == 1

\* ---------------------------------------------------------------- inputs
Procs == {"h1", "h2"}
Users == {[ID |-> 1, Username |-> "alice"], [ID |-> 2, Username |-> "bob"]}
Admins == {"admin"}
Types == {"client"}
AdminTypes == {"server"}
Reasons == {"need"}
RejectReasons == {"denied"}
CertNames == {"manual"}
NewNames == {"renamed"}

\* ------------------------------------------------------- internal/model
CertificateStatusValid == "valid"
CertificateStatusExpiring == "expiring"
CertificateStatusRevoked == "revoked"
CertificateStatusPending == "pending"
CertificateStatusRejected == "rejected"

\* time.Time as (calendar year, instant of the clock); a nil *time.Time; the
\* zero time.Time.
Date(y, t) == [y |-> y, t |-> t]
NilTime == Date(0, 0 - 1)
ZeroTime == Date(0, 0)
\* time.Time.AddDate(years, 0, 0)
AddDate(d, years) == [d EXCEPT !.y = @ + years]

\* A nil *model.Certificate, *model.CertificateRequest, *model.User.
Nil == [ID |-> 0]
NoUser == [ID |-> 0, Username |-> ""]

\* model.Certificate{...}: the fields a literal names, ID left zero.
Certificate(name, certType, status, owner, ownerID, content, issued, expiration) ==
  [ID |-> 0, Name |-> name, Type |-> certType, Status |-> status, Owner |-> owner,
   OwnerID |-> ownerID, Content |-> content, IssuedDate |-> issued,
   ExpirationDate |-> expiration]

\* model.CertificateRequest{...}: the fields a literal names, the others zero.
CertificateRequest(userName, userID, reqType, status, reason) ==
  [ID |-> 0, UserName |-> userName, UserID |-> userID, Type |-> reqType,
   Status |-> status, Reason |-> reason, ApprovedBy |-> "", ApprovedAt |-> NilTime,
   RejectedBy |-> "", RejectedAt |-> NilTime, RejectedReason |-> ""]

\* model.CertificateRequest.IsPending
IsPending(req) == req.Status = CertificateStatusPending

\* ---------------------------------------------------------------- errors
ErrRecordNotFound == "record not found"
DbErr == "db error"
ErrCertExists == "certificate already exists for user"
ErrReqPending == "certificate request is pending for user"
\* errors.Wrap(err, msg)
Wrap(err, msg) == msg \o ": " \o err
ErrGetRequest(err, reqID) == Wrap(err, "failed to get request by id: " \o ToString(reqID))
ErrNotPending(req) == "request is not pending, current status: " \o req.Status

VARIABLES
  certs,     \* the certificates table: a set of rows
  requests,  \* the certificate_requests table: a set of rows
  certSeq,   \* last auto-increment id of certs
  reqSeq,    \* last auto-increment id of requests
  clock,     \* the latest instant time.Now() returned
  proc,      \* each HTTP handler: the call in progress, its position and locals
  ret,       \* the call that the last step answered (NoRet when it answered none)
  pre        \* the tables as the latest non-overlapping call found them

vars == <<certs, requests, certSeq, reqSeq, clock, proc, ret, pre>>

\* ------------------------------------------------------------ internal/db
CertByID(id) == {c \in certs : c.ID = id}
ReqByID(id) == {r \in requests : r.ID = id}
\* db.GetCertificateByOwnerID: some certificate row of the owner.
CertsByOwnerID(ownerID) == {c \in certs : c.OwnerID = ownerID}
\* db.GetPendingCertificateRequestByUserID: some pending request row of the user.
PendingRequestsByUserID(userID) ==
  {r \in requests : r.UserID = userID /\ r.Status = CertificateStatusPending}
\* db.CreateCertificate / db.CreateCertificateRequest: insert under the next id.
InsertCert(c) == certs \cup {[c EXCEPT !.ID = certSeq + 1]}
InsertReq(r) == requests \cup {[r EXCEPT !.ID = reqSeq + 1]}
\* db.UpdateCertificate / db.UpdateCertificateRequest: write every column of the row.
SaveCert(c) == IF CertByID(c.ID) = {} THEN certs ELSE (certs \ CertByID(c.ID)) \cup {c}
SaveReq(r) == IF ReqByID(r.ID) = {} THEN requests ELSE (requests \ ReqByID(r.ID)) \cup {r}
\* db.DeleteCertificate
DeleteCert(id) == certs \ CertByID(id)

\* Room for one more row: the tables are capped so that the model is finite.
CanInsertCert == certSeq < MaxCerts /\ certSeq + reqSeq < MaxRows
CanInsertReq == reqSeq < MaxReqs /\ certSeq + reqSeq < MaxRows

\* -------------------------------------------------- handler bookkeeping
Idle == [pc |-> "idle", op |-> "none", id |-> 0, user |-> NoUser, type |-> "",
         reason |-> "", cert |-> Nil, req |-> Nil]
NoRet == [op |-> "none", id |-> 0, user |-> NoUser, type |-> "", reason |-> "",
          err |-> "", code |-> 0, fault |-> FALSE, cert |-> Nil, req |-> Nil]
Call(op) == [Idle EXCEPT !.pc = "begun", !.op = op]

\* A call begins in an idle handler; m.seq: only while no other call is in progress.
CanBegin(p, m) ==
  /\ proc[p].pc = "idle"
  /\ m.seq => \A q \in Procs : proc[q].pc = "idle"

Begin(p, m) ==
  pre' = IF m.seq THEN [certs |-> certs, requests |-> requests] ELSE pre

\* The answer of call st: the service's error and the status the handler gives
\* it (fault: a storage call failed), or the service's result with status 200.
Failed(st, err, code, fault) ==
  [op |-> st.op, id |-> st.id, user |-> st.user, type |-> st.type,
   reason |-> st.reason, err |-> err, code |-> code, fault |-> fault,
   cert |-> Nil, req |-> Nil]
Succeeded(st, c, r) ==
  [op |-> st.op, id |-> st.id, user |-> st.user, type |-> st.type,
   reason |-> st.reason, err |-> "", code |-> 200, fault |-> FALSE,
   cert |-> c, req |-> r]

\* A step answers the call and frees the handler, or leaves the call in progress.
Answer(p, r) == proc' = [proc EXCEPT ![p] = Idle] /\ ret' = r
Continue(p, st, pc) == proc' = [proc EXCEPT ![p] = [st EXCEPT !.pc = pc]] /\ ret' = NoRet

DbUnchanged == UNCHANGED <<certs, requests, certSeq, reqSeq>>

Init ==
  /\ certs = {}
  /\ requests = {}
  /\ certSeq = 0
  /\ reqSeq = 0
  /\ clock = 0
  /\ proc = [p \in Procs |-> Idle]
  /\ ret = NoRet
  /\ pre = [certs |-> {}, requests |-> {}]

\* ----------------------------------------------- internal/op/certificate.go
\* time.Now() at instant t of the clock.
Now(t) == Date(0, t)

\* As CheckExistingCert, had it refused on any certificate found, whatever its status.
CheckExistingCertAnyStatus(existingCert, err) ==
  IF err # "" /\ err # ErrRecordNotFound
  THEN Wrap(err, "failed to check existing certificate")
  ELSE IF existingCert # Nil
  THEN ErrCertExists
  ELSE ""

\* CreateTenantCertificateRequest, step 1: the error for the certificate lookup's
\* answer (existingCert, err), "" to go on.
CheckExistingCert(existingCert, err) ==
  IF err # "" /\ err # ErrRecordNotFound
  THEN Wrap(err, "failed to check existing certificate")
  ELSE IF /\ existingCert # Nil
          /\ \/ existingCert.Status = CertificateStatusValid
             \/ existingCert.Status = CertificateStatusExpiring
  THEN ErrCertExists
  ELSE ""

\* As CheckPendingRequest, had it left out the test that a request was found.
CheckPendingRequestNoTest(err) ==
  IF err # "" /\ err # ErrRecordNotFound
  THEN Wrap(err, "failed to check pending request")
  ELSE ""

\* CreateTenantCertificateRequest, step 2: the error for the pending-request
\* lookup's error, "" to go on.
CheckPendingRequest(err) ==
  IF err # "" /\ err # ErrRecordNotFound
  THEN Wrap(err, "failed to check pending request")
  ELSE IF err # ErrRecordNotFound
  THEN ErrReqPending
  ELSE ""

\* CreateTenantCertificateRequest, step 3: the request to insert.
NewTenantRequest(user, reqType, reason) ==
  CertificateRequest(user.Username, user.ID, reqType, CertificateStatusPending, reason)

\* As ApproveRefuses and RejectRefuses, had they tested for one status only.
ApproveRefusesRejectedOnly(req) == req.Status = CertificateStatusRejected
RejectRefusesValidOnly(req) == req.Status = CertificateStatusValid

\* ApproveAndCreateCertificate / RejectCertificateRequest, step 2: refuse the request.
ApproveRefuses(req) == ~IsPending(req)
RejectRefuses(req) == ~IsPending(req)

\* As NewCertificate, had it given every certificate the type "client".
NewCertificateClientType(req, t1, t2) ==
  Certificate(req.UserName \o "-" \o req.Type \o "-cert", "client",
              CertificateStatusValid, req.UserName, req.UserID, "",
              Now(t1), AddDate(Now(t2), 1))

\* ApproveAndCreateCertificate, step 3: the certificate, its two dates read from
\* the clock one after the other (instants t1 and t2).
NewCertificate(req, t1, t2) ==
  Certificate(req.UserName \o "-" \o req.Type \o "-cert", req.Type,
              CertificateStatusValid, req.UserName, req.UserID, "",
              Now(t1), AddDate(Now(t2), 1))

\* ApproveAndCreateCertificate, step 4: the request as approved.
ApprovedRequest(req, adminName, t) ==
  [req EXCEPT !.Status = CertificateStatusValid, !.ApprovedBy = adminName,
              !.ApprovedAt = Now(t)]

\* As RejectedRequest, had it not recorded the reason.
RejectedRequestNoReason(req, adminName, t, reason) ==
  [req EXCEPT !.Status = CertificateStatusRejected, !.RejectedBy = adminName,
              !.RejectedAt = Now(t)]

\* RejectCertificateRequest, step 3: the request as rejected.
RejectedRequest(req, adminName, t, reason) ==
  [req EXCEPT !.Status = CertificateStatusRejected, !.RejectedBy = adminName,
              !.RejectedAt = Now(t), !.RejectedReason = reason]

\* As RevokedCertificate, had it also emptied the content.
RevokedCertificateNoContent(cert) ==
  [cert EXCEPT !.Status = CertificateStatusRevoked, !.Content = ""]

\* RevokeCertificate: the certificate as revoked.
RevokedCertificate(cert) == [cert EXCEPT !.Status = CertificateStatusRevoked]

\* UpdateCertificateDetails / the UpdateCertificate handler: name and date overwritten.
UpdatedCertificate(cert, name, expirationDate) ==
  [cert EXCEPT !.Name = name, !.ExpirationDate = expirationDate]

\* ------------------------------------------------------- server/handles
\* As TenantErrorCode, had it answered every error of the service 400.
TenantErrorCodeAlways400(err) == 400

\* The tenant handler's status for a service error: two messages are answered 400.
TenantErrorCode(err) == IF err = ErrCertExists \/ err = ErrReqPending THEN 400 ELSE 500

\* --------------------------------- ApproveCertificateRequest (admin handler)
\* db.GetCertificateRequestByID, the pending check, and the new values built.
ApproveLoad(p, m) ==
  \E id \in 1..MaxReqs, admin \in Admins, fault \in m.faults :
    LET st == [Call("Approve") EXCEPT !.id = id, !.user = [ID |-> 0, Username |-> admin]]
    IN /\ CanBegin(p, m)
       /\ Begin(p, m)
       /\ DbUnchanged
       /\ IF fault
          THEN /\ Answer(p, Failed(st, ErrGetRequest(DbErr, id), 500, TRUE))
               /\ UNCHANGED clock
          ELSE IF ReqByID(id) = {}
          THEN /\ Answer(p, Failed(st, ErrGetRequest(ErrRecordNotFound, id), 500, FALSE))
               /\ UNCHANGED clock
          ELSE LET req == CHOOSE r \in ReqByID(id) : TRUE
               IN IF ApproveRefuses(req)
                  THEN /\ Answer(p, Failed(st, ErrNotPending(req), 500, FALSE))
                       /\ UNCHANGED clock
                  ELSE \E t1, t2, t3 \in clock..MaxClock :
                         /\ t1 <= t2 /\ t2 <= t3
                         /\ clock' = t3
                         /\ Continue(p, [st EXCEPT !.cert = NewCertificate(req, t1, t2),
                                                   !.req = ApprovedRequest(req, admin, t3)],
                                     "approve_create")

\* db.CreateCertificate(cert)
ApproveCreateCert(p, m) ==
  \E fault \in m.faults :
    LET st == proc[p]
    IN /\ st.pc = "approve_create"
       /\ UNCHANGED <<requests, reqSeq, clock, pre>>
       /\ IF fault
          THEN /\ Answer(p, Failed(st, Wrap(DbErr, "failed to create certificate"), 500, TRUE))
               /\ UNCHANGED <<certs, certSeq>>
          ELSE /\ CanInsertCert
               /\ certs' = InsertCert(st.cert)
               /\ certSeq' = certSeq + 1
               /\ Continue(p, [st EXCEPT !.cert.ID = certSeq + 1], "approve_update")

\* As ApproveUpdateRequest, had it deleted the certificate again when the
\* update of the request fails.
ApproveUpdateRequestRollsBack(p, m) ==
  \E fault \in m.faults :
    LET st == proc[p]
    IN /\ st.pc = "approve_update"
       /\ UNCHANGED <<certSeq, reqSeq, clock, pre>>
       /\ IF fault
          THEN /\ Answer(p, Failed(st, Wrap(DbErr, "failed to update request"), 500, TRUE))
               /\ certs' = DeleteCert(st.cert.ID)
               /\ UNCHANGED requests
          ELSE /\ requests' = SaveReq(st.req)
               /\ UNCHANGED certs
               /\ Answer(p, Succeeded(st, st.cert, Nil))

\* As ApproveUpdateRequest, had it written the request only while its stored
\* status is still pending, and refused otherwise.
ApproveUpdateRequestIfPending(p, m) ==
  \E fault \in m.faults :
    LET st == proc[p]
    IN /\ st.pc = "approve_update"
       /\ UNCHANGED <<certs, certSeq, reqSeq, clock, pre>>
       /\ IF fault
          THEN /\ Answer(p, Failed(st, Wrap(DbErr, "failed to update request"), 500, TRUE))
               /\ UNCHANGED requests
          ELSE IF \E r \in ReqByID(st.id) : ~IsPending(r)
          THEN /\ Answer(p, Failed(st, ErrNotPending(CHOOSE r \in ReqByID(st.id) : TRUE),
                                   500, FALSE))
               /\ UNCHANGED requests
          ELSE /\ requests' = SaveReq(st.req)
               /\ Answer(p, Succeeded(st, st.cert, Nil))

\* db.UpdateCertificateRequest(req)
ApproveUpdateRequest(p, m) ==
  \E fault \in m.faults :
    LET st == proc[p]
    IN /\ st.pc = "approve_update"
       /\ UNCHANGED <<certs, certSeq, reqSeq, clock, pre>>
       /\ IF fault
          THEN /\ Answer(p, Failed(st, Wrap(DbErr, "failed to update request"), 500, TRUE))
               /\ UNCHANGED requests
          ELSE /\ requests' = SaveReq(st.req)
               /\ Answer(p, Succeeded(st, st.cert, Nil))

\* ---------------------------------- RejectCertificateRequest (admin handler)
\* db.GetCertificateRequestByID, the pending check, and the new values built.
RejectLoad(p, m) ==
  \E id \in 1..MaxReqs, admin \in Admins, reason \in RejectReasons, fault \in m.faults :
    LET st == [Call("Reject") EXCEPT !.id = id, !.reason = reason,
                                     !.user = [ID |-> 0, Username |-> admin]]
    IN /\ CanBegin(p, m)
       /\ Begin(p, m)
       /\ DbUnchanged
       /\ IF fault
          THEN /\ Answer(p, Failed(st, ErrGetRequest(DbErr, id), 500, TRUE))
               /\ UNCHANGED clock
          ELSE IF ReqByID(id) = {}
          THEN /\ Answer(p, Failed(st, ErrGetRequest(ErrRecordNotFound, id), 500, FALSE))
               /\ UNCHANGED clock
          ELSE LET req == CHOOSE r \in ReqByID(id) : TRUE
               IN IF RejectRefuses(req)
                  THEN /\ Answer(p, Failed(st, ErrNotPending(req), 500, FALSE))
                       /\ UNCHANGED clock
                  ELSE \E t \in clock..MaxClock :
                         /\ clock' = t
                         /\ Continue(p, [st EXCEPT
                                           !.req = RejectedRequest(req, admin, t, reason)],
                                     "reject_update")

\* db.UpdateCertificateRequest(req)
RejectUpdateRequest(p, m) ==
  \E fault \in m.faults :
    LET st == proc[p]
    IN /\ st.pc = "reject_update"
       /\ UNCHANGED <<certs, certSeq, reqSeq, clock, pre>>
       /\ IF fault
          THEN /\ Answer(p, Failed(st, DbErr, 500, TRUE))
               /\ UNCHANGED requests
          ELSE /\ requests' = SaveReq(st.req)
               /\ Answer(p, Succeeded(st, Nil, Nil))

\* ------------------------------- CreateTenantCertificateRequest (tenant handler)
\* db.GetCertificateByOwnerID(user.ID) and the check of its answer.
TenantCheckCert(p, m) ==
  \E user \in m.users, reqType \in Types, reason \in Reasons, fault \in m.faults :
    LET st == [Call("CreateTenantRequest") EXCEPT !.user = user, !.type = reqType,
                                                  !.reason = reason]
    IN /\ CanBegin(p, m)
       /\ Begin(p, m)
       /\ DbUnchanged
       /\ UNCHANGED clock
       /\ \E existingCert \in (IF fault \/ CertsByOwnerID(user.ID) = {} THEN {Nil}
                                ELSE CertsByOwnerID(user.ID)) :
            LET err == IF fault THEN DbErr
                       ELSE IF existingCert = Nil THEN ErrRecordNotFound ELSE ""
                e == CheckExistingCert(existingCert, err)
            IN IF e # ""
               THEN Answer(p, Failed(st, e, TenantErrorCode(e), fault))
               ELSE Continue(p, st, "tenant_pending")

\* db.GetPendingCertificateRequestByUserID(user.ID) and the check of its error.
TenantCheckPending(p, m) ==
  \E fault \in m.faults :
    LET st == proc[p]
        err == IF fault THEN DbErr
               ELSE IF PendingRequestsByUserID(st.user.ID) = {} THEN ErrRecordNotFound
               ELSE ""
        e == CheckPendingRequest(err)
    IN /\ st.pc = "tenant_pending"
       /\ DbUnchanged
       /\ UNCHANGED <<clock, pre>>
       /\ IF e # ""
          THEN Answer(p, Failed(st, e, TenantErrorCode(e), fault))
          ELSE Continue(p, st, "tenant_create")

\* As TenantCreate, had it inserted the request only while the user has no
\* pending request stored, and refused otherwise.
TenantCreateIfNonePending(p, m) ==
  \E fault \in m.faults :
    LET st == proc[p]
        request == NewTenantRequest(st.user, st.type, st.reason)
    IN /\ st.pc = "tenant_create"
       /\ UNCHANGED <<certs, certSeq, clock, pre>>
       /\ IF fault
          THEN /\ Answer(p, Failed(st, DbErr, TenantErrorCode(DbErr), TRUE))
               /\ UNCHANGED <<requests, reqSeq>>
          ELSE IF PendingRequestsByUserID(st.user.ID) # {}
          THEN /\ Answer(p, Failed(st, ErrReqPending, TenantErrorCode(ErrReqPending), FALSE))
               /\ UNCHANGED <<requests, reqSeq>>
          ELSE /\ CanInsertReq
               /\ requests' = InsertReq(request)
               /\ reqSeq' = reqSeq + 1
               /\ Answer(p, Succeeded(st, Nil, [request EXCEPT !.ID = reqSeq + 1]))

\* db.CreateCertificateRequest(request)
TenantCreate(p, m) ==
  \E fault \in m.faults :
    LET st == proc[p]
        request == NewTenantRequest(st.user, st.type, st.reason)
    IN /\ st.pc = "tenant_create"
       /\ UNCHANGED <<certs, certSeq, clock, pre>>
       /\ IF fault
          THEN /\ Answer(p, Failed(st, DbErr, TenantErrorCode(DbErr), TRUE))
               /\ UNCHANGED <<requests, reqSeq>>
          ELSE /\ CanInsertReq
               /\ requests' = InsertReq(request)
               /\ reqSeq' = reqSeq + 1
               /\ Answer(p, Succeeded(st, Nil, [request EXCEPT !.ID = reqSeq + 1]))

\* ----------------------------------------------- certificate handlers (admin)
\* CreateCertificate: the certificate is built from the body and inserted.
AdminCertificate(name, certType, owner, ownerID, content, issued, expiration) ==
  Certificate(name, certType, CertificateStatusValid, owner, ownerID, content,
              issued, expiration)

AdminCreateCertificate(p, m) ==
  \E name \in CertNames, certType \in Types, owner \in m.users, fault \in m.faults :
    LET st == [Call("CreateCertificate") EXCEPT !.user = owner, !.type = certType]
        cert == AdminCertificate(name, certType, owner.Username, owner.ID, "PEM",
                                 ZeroTime, Date(1, 0))
    IN /\ CanBegin(p, m)
       /\ Begin(p, m)
       /\ UNCHANGED <<requests, reqSeq, clock>>
       /\ IF fault
          THEN /\ Answer(p, Failed(st, DbErr, 500, TRUE))
               /\ UNCHANGED <<certs, certSeq>>
          ELSE /\ CanInsertCert
               /\ certs' = InsertCert(cert)
               /\ certSeq' = certSeq + 1
               /\ Answer(p, Succeeded(st, [cert EXCEPT !.ID = certSeq + 1], Nil))

\* db.GetCertificateByID(id) and the change made to the certificate loaded:
\* first step of revoke and of both updates.
LoadCertificate(p, m, op, name, expiration) ==
  \E id \in 1..MaxCerts, fault \in m.faults :
    LET st == [Call(op) EXCEPT !.id = id]
    IN /\ CanBegin(p, m)
       /\ Begin(p, m)
       /\ DbUnchanged
       /\ UNCHANGED clock
       /\ IF fault
          THEN Answer(p, Failed(st, DbErr, 500, TRUE))
          ELSE IF CertByID(id) = {}
          THEN Answer(p, Failed(st, ErrRecordNotFound, 500, FALSE))
          ELSE LET cert == CHOOSE c \in CertByID(id) : TRUE
               IN Continue(p, [st EXCEPT
                                 !.cert = IF op = "Revoke"
                                          THEN RevokedCertificate(cert)
                                          ELSE UpdatedCertificate(cert, name, expiration)],
                           "save_cert")

\* RevokeCertificate
RevokeLoad(p, m) == LoadCertificate(p, m, "Revoke", "", ZeroTime)

\* op.UpdateCertificateDetails
UpdateDetailsLoad(p, m) ==
  \E name \in NewNames : LoadCertificate(p, m, "UpdateDetails", name, Date(2, 0))

\* the UpdateCertificate handler
UpdateHandlerLoad(p, m) ==
  \E name \in NewNames : LoadCertificate(p, m, "UpdateCertificate", name, Date(2, 0))

\* db.UpdateCertificate(cert): second step of revoke and of both updates.
SaveCertificate(p, m) ==
  \E fault \in m.faults :
    LET st == proc[p]
    IN /\ st.pc = "save_cert"
       /\ UNCHANGED <<requests, certSeq, reqSeq, clock, pre>>
       /\ IF fault
          THEN /\ Answer(p, Failed(st, DbErr, 500, TRUE))
               /\ UNCHANGED certs
          ELSE /\ certs' = SaveCert(st.cert)
               /\ Answer(p, Succeeded(st, IF st.op = "Revoke" THEN Nil ELSE st.cert, Nil))

\* DeleteCertificate
DeleteCertificate(p, m) ==
  \E id \in 1..MaxCerts, fault \in m.faults :
    LET st == [Call("Delete") EXCEPT !.id = id]
    IN /\ CanBegin(p, m)
       /\ Begin(p, m)
       /\ UNCHANGED <<requests, certSeq, reqSeq, clock>>
       /\ IF fault
          THEN /\ Answer(p, Failed(st, DbErr, 500, TRUE))
               /\ UNCHANGED certs
          ELSE /\ certs' = DeleteCert(id)
               /\ Answer(p, Succeeded(st, Nil, Nil))

\* CreateCertificateRequest (admin handler): inserted as pending, nothing checked.
AdminRequest(userName, userID, reqType, reason) ==
  CertificateRequest(userName, userID, reqType, CertificateStatusPending, reason)

AdminCreateRequest(p, m) ==
  \E user \in m.users, reqType \in AdminTypes, reason \in Reasons, fault \in m.faults :
    LET st == [Call("CreateCertificateRequest") EXCEPT !.user = user, !.type = reqType,
                                                       !.reason = reason]
        request == AdminRequest(user.Username, user.ID, reqType, reason)
    IN /\ CanBegin(p, m)
       /\ Begin(p, m)
       /\ UNCHANGED <<certs, certSeq, clock>>
       /\ IF fault
          THEN /\ Answer(p, Failed(st, DbErr, 500, TRUE))
               /\ UNCHANGED <<requests, reqSeq>>
          ELSE /\ CanInsertReq
               /\ requests' = InsertReq(request)
               /\ reqSeq' = reqSeq + 1
               /\ Answer(p, Succeeded(st, Nil, [request EXCEPT !.ID = reqSeq + 1]))

\* As GetCertificateForTenant, had it returned record-not-found like any other error.
GetCertificateForTenantPropagates(cert, err) ==
  IF err # "" THEN [cert |-> Nil, err |-> err] ELSE [cert |-> cert, err |-> ""]

\* op.GetCertificateForTenant: the result for the owner lookup's answer (cert, err).
GetCertificateForTenant(cert, err) ==
  IF err # ""
  THEN IF err # ErrRecordNotFound
       THEN [cert |-> Nil, err |-> err]
       ELSE [cert |-> Nil, err |-> ""]
  ELSE [cert |-> cert, err |-> ""]

\* GetTenantCertificate (tenant handler): db.GetCertificateByOwnerID(user.ID)
\* through op.GetCertificateForTenant.
GetTenantCertificate(p, m) ==
  \E user \in m.users, fault \in m.faults :
    LET st == [Call("GetTenantCertificate") EXCEPT !.user = user]
    IN /\ CanBegin(p, m)
       /\ Begin(p, m)
       /\ DbUnchanged
       /\ UNCHANGED clock
       /\ \E cert \in (IF fault \/ CertsByOwnerID(user.ID) = {} THEN {Nil}
                        ELSE CertsByOwnerID(user.ID)) :
            LET err == IF fault THEN DbErr
                       ELSE IF cert = Nil THEN ErrRecordNotFound ELSE ""
                res == GetCertificateForTenant(cert, err)
            IN IF res.err # ""
               THEN Answer(p, Failed(st, res.err, 500, fault))
               ELSE Answer(p, Succeeded(st, res.cert, Nil))

\* Outside this code: a valid certificate nearing its date is marked expiring.
MarkExpiring(m) ==
  \E c \in certs :
    /\ m.seq => \A q \in Procs : proc[q].pc = "idle"
    /\ c.Status = CertificateStatusValid
    /\ certs' = (certs \ {c}) \cup {[c EXCEPT !.Status = CertificateStatusExpiring]}
    /\ ret' = NoRet
    /\ UNCHANGED <<requests, certSeq, reqSeq, clock, proc, pre>>

\* ------------------------------------------------------- specifications
\* A mode: whether calls overlap, which storage failures and which users occur.
Sequential == [seq |-> TRUE, faults |-> BOOLEAN, users |-> Users]
Racing == [seq |-> FALSE, faults |-> {FALSE}, users |-> Users]

\* The request workflow.
RequestSteps(p, m) ==
  \/ ApproveLoad(p, m)
  \/ ApproveCreateCert(p, m)
  \/ ApproveUpdateRequest(p, m)
  \/ RejectLoad(p, m)
  \/ RejectUpdateRequest(p, m)
  \/ TenantCheckCert(p, m)
  \/ TenantCheckPending(p, m)
  \/ TenantCreate(p, m)

\* The certificate operations the request workflow meets.
CertSteps(p, m) ==
  \/ AdminCreateCertificate(p, m)
  \/ AdminCreateRequest(p, m)
  \/ RevokeLoad(p, m)
  \/ SaveCertificate(p, m)
  \/ DeleteCertificate(p, m)
  \/ GetTenantCertificate(p, m)

\* Calls one after the other: one handler, and no step of the surroundings
\* while a call is in progress; any storage call may fail.
Next ==
  \/ RequestSteps("h1", Sequential)
  \/ CertSteps("h1", Sequential)
  \/ MarkExpiring(Sequential)
Spec == Init /\ [][Next]_vars

\* Calls of the request workflow in different handlers interleave at their
\* storage calls.
NextConc == \E p \in Procs : RequestSteps(p, Racing)
SpecConc == Init /\ [][NextConc]_vars

\* Calls on certificates in different handlers interleave at their storage
\* calls: creation, revocation, both updates and deletion.
CertificateSteps(p, m) ==
  \/ AdminCreateCertificate(p, m)
  \/ RevokeLoad(p, m)
  \/ UpdateDetailsLoad(p, m)
  \/ UpdateHandlerLoad(p, m)
  \/ SaveCertificate(p, m)
  \/ DeleteCertificate(p, m)
NextCert == \E p \in Procs : CertificateSteps(p, Racing)
SpecCert == Init /\ [][NextCert]_vars

\* ------------------------------------------------------------- properties
\* Under Spec, in a state where ret names a call, the call has just been
\* answered: pre holds the tables as it found them, certs and requests the
\* tables as it left them.
PreRequest(id) == {r \in pre.requests : r.ID = id}
PrePending(userID) ==
  {r \in pre.requests : r.UserID = userID /\ r.Status = CertificateStatusPending}
PreActiveCerts(ownerID) ==
  {c \in pre.certs : /\ c.OwnerID = ownerID
                     /\ c.Status \in {CertificateStatusValid, CertificateStatusExpiring}}

\* C1: an ApproveAndCreateCertificate call on a request whose stored status is
\* not pending returns an error, leaves the stored requests as they were and
\* creates no certificate.
C1_ApproveNonPendingRefused ==
  (ret.op = "Approve"
     /\ \E r \in PreRequest(ret.id) : r.Status # CertificateStatusPending)
  => /\ ret.err # ""
     /\ ret.cert = Nil
     /\ requests = pre.requests
     /\ certs = pre.certs

C1_Witness ==
  /\ ret.op = "Approve"
  /\ \E r \in PreRequest(ret.id) :
       /\ r.Status = CertificateStatusRejected
       /\ ret.err = "request is not pending, current status: rejected"
  /\ requests = pre.requests

\* C2: a RejectCertificateRequest call on a request whose stored status is not
\* pending returns an error and leaves every field of every stored request as
\* it was.
C2_RejectNonPendingRefused ==
  (ret.op = "Reject"
     /\ \E r \in PreRequest(ret.id) : r.Status # CertificateStatusPending)
  => /\ ret.err # ""
     /\ requests = pre.requests
     /\ certs = pre.certs

C2_Witness ==
  /\ ret.op = "Reject"
  /\ \E r \in PreRequest(ret.id) :
       /\ r.Status = CertificateStatusValid
       /\ ret.err = "request is not pending, current status: valid"
  /\ requests = pre.requests

\* C3: an ApproveAndCreateCertificate call that succeeds on a pending request
\* has added exactly one certificate, whose expiration date is its issued date
\* plus one year, and has marked the request valid with the approver and the
\* approval time set.
C3_ApproveIssuesOneYearCertificate ==
  (ret.op = "Approve" /\ ret.err = ""
     /\ \E r \in PreRequest(ret.id) : r.Status = CertificateStatusPending)
  => /\ ret.cert \notin pre.certs
     /\ certs = pre.certs \cup {ret.cert}
     /\ ret.cert.ExpirationDate = AddDate(ret.cert.IssuedDate, 1)
     /\ \E r \in ReqByID(ret.id) :
          /\ r.Status = CertificateStatusValid
          /\ r.ApprovedBy = ret.user.Username
          /\ r.ApprovedAt # NilTime

\* C4 as claimed: a RejectCertificateRequest call on a pending request leaves
\* the request rejected, with the rejecter, the rejection time and the reason
\* recorded, and the certificates as they were.
C4_RejectPendingRecorded ==
  (ret.op = "Reject"
     /\ \E r \in PreRequest(ret.id) : r.Status = CertificateStatusPending)
  => /\ certs = pre.certs
     /\ \E r \in PreRequest(ret.id), t \in 0..clock :
          requests = (pre.requests \ {r})
                       \cup {[r EXCEPT !.Status = CertificateStatusRejected,
                                       !.RejectedBy = ret.user.Username,
                                       !.RejectedAt = Now(t),
                                       !.RejectedReason = ret.reason]}

\* C4 as amended: the same when the call returns no error; when it returns an
\* error a storage call failed, and requests and certificates are as they were.
C4_RejectPendingRecordedUnlessFailed ==
  (ret.op = "Reject"
     /\ \E r \in PreRequest(ret.id) : r.Status = CertificateStatusPending)
  => /\ certs = pre.certs
     /\ IF ret.err = ""
        THEN \E r \in PreRequest(ret.id), t \in 0..clock :
               requests = (pre.requests \ {r})
                            \cup {[r EXCEPT !.Status = CertificateStatusRejected,
                                            !.RejectedBy = ret.user.Username,
                                            !.RejectedAt = Now(t),
                                            !.RejectedReason = ret.reason]}
        ELSE ret.fault /\ requests = pre.requests

C4_Witness ==
  /\ ret.op = "Reject" /\ ret.err = ""
  /\ certs # {}
  /\ \E r \in PreRequest(ret.id) : r.Status = CertificateStatusPending
  /\ \E r \in ReqByID(ret.id) :
       /\ r.Status = CertificateStatusRejected
       /\ r.RejectedBy = "admin"
       /\ r.RejectedReason = "denied"
       /\ r.RejectedAt = Now(1)

\* C5: a CreateTenantCertificateRequest call for a user who owns a certificate
\* that is valid or expiring fails with "certificate already exists for user"
\* and creates no request (every lookup of the call having succeeded).
C5_TenantRefusedWithCertificate ==
  (ret.op = "CreateTenantRequest" /\ ~ret.fault /\ PreActiveCerts(ret.user.ID) # {})
  => /\ ret.err = ErrCertExists
     /\ requests = pre.requests

\* C6 as claimed: a CreateTenantCertificateRequest call for a user who owns a
\* pending request fails with "certificate request is pending for user" and
\* creates no request.
C6_TenantRefusedWithPendingRequest ==
  (ret.op = "CreateTenantRequest" /\ PrePending(ret.user.ID) # {})
  => /\ ret.err = ErrReqPending
     /\ requests = pre.requests

\* C6 as amended: such a call fails and creates no request; when its lookups
\* succeed the error is one of the two refusals, and it is "certificate request
\* is pending for user" when the user owns no valid or expiring certificate.
C6_TenantRefusedWithPendingRequestOrCert ==
  (ret.op = "CreateTenantRequest" /\ PrePending(ret.user.ID) # {})
  => /\ ret.err # ""
     /\ ret.req = Nil
     /\ requests = pre.requests
     /\ certs = pre.certs
     /\ ~ret.fault => ret.err \in {ErrReqPending, ErrCertExists}
     /\ (~ret.fault /\ PreActiveCerts(ret.user.ID) = {}) => ret.err = ErrReqPending

C6_Witness ==
  /\ ret.op = "CreateTenantRequest"
  /\ PrePending(ret.user.ID) # {}
  /\ PreActiveCerts(ret.user.ID) = {}
  /\ ret.err = ErrReqPending
  /\ \E r \in pre.requests : r.UserID # ret.user.ID

\* C7: in every step, a stored request whose status is valid or rejected keeps
\* that status.
C7_TerminalStatusKept ==
  [][\A r \in requests :
       r.Status \in {CertificateStatusValid, CertificateStatusRejected}
         => \E r2 \in requests' : r2.ID = r.ID /\ r2.Status = r.Status]_vars

\* C8: no user has more than one request in pending status.
C8_OnePendingRequestPerUser ==
  \A u \in Users : Cardinality(PendingRequestsByUserID(u.ID)) <= 1

\* C9: no owner has more than one stored certificate.
C9_OneCertificatePerOwner ==
  \A u \in Users : Cardinality(CertsByOwnerID(u.ID)) <= 1

\* C10: a CreateTenantCertificateRequest call whose storage calls succeed, for a
\* user with no valid or expiring certificate and no pending request, succeeds
\* and has added exactly one request: pending, with the caller's name and id and
\* the given type and reason, under a new id; the certificates and the other
\* requests are as they were.
C10_TenantRequestCreated ==
  (ret.op = "CreateTenantRequest" /\ ~ret.fault
     /\ PreActiveCerts(ret.user.ID) = {} /\ PrePending(ret.user.ID) = {})
  => /\ ret.err = ""
     /\ certs = pre.certs
     /\ requests = pre.requests \cup {ret.req}
     /\ \A r \in pre.requests : r.ID # ret.req.ID
     /\ ret.req.ID # 0
     /\ [ret.req EXCEPT !.ID = 0]
          = CertificateRequest(ret.user.Username, ret.user.ID, ret.type,
                               CertificateStatusPending, ret.reason)

C10_Witness ==
  /\ ret.op = "CreateTenantRequest" /\ ret.err = ""
  /\ \E c \in pre.certs : c.OwnerID = ret.user.ID /\ c.Status = CertificateStatusRevoked
  /\ pre.requests # {}
  /\ ret.req \in requests /\ ret.req \notin pre.requests

\* C11: every certificate an ApproveAndCreateCertificate call has added (the
\* call having succeeded or not) is named "<user name>-<type>-cert" after the
\* pending request it was called on, has the request's type, status valid, the
\* request's user name and user id as owner, and empty content.
C11_ApprovedCertificateFields ==
  ret.op = "Approve"
  => \A c \in certs \ pre.certs :
       \E r \in PreRequest(ret.id) :
         /\ r.Status = CertificateStatusPending
         /\ c.Name = r.UserName \o "-" \o r.Type \o "-cert"
         /\ c.Type = r.Type
         /\ c.Status = CertificateStatusValid
         /\ c.Owner = r.UserName
         /\ c.OwnerID = r.UserID
         /\ c.Content = ""

C11_Witness ==
  /\ ret.op = "Approve" /\ ret.err = ""
  /\ ret.cert \in certs \ pre.certs
  /\ ret.cert.Name = "bob-server-cert"
  /\ ret.cert.Type = "server"
  /\ ret.cert.OwnerID = 2

\* C12: a GetCertificateForTenant call changes neither table; when the owner
\* lookup fails otherwise than by record-not-found it returns that error as it
\* is and no certificate; when the owner has no certificate it returns no
\* certificate and no error; otherwise it returns a certificate of the owner
\* and no error.
C12_TenantFetch ==
  ret.op = "GetTenantCertificate"
  => /\ certs = pre.certs
     /\ requests = pre.requests
     /\ IF ret.fault
        THEN ret.err = DbErr /\ ret.cert = Nil
        ELSE /\ ret.err = ""
             /\ IF CertsByOwnerID(ret.user.ID) = {}
                THEN ret.cert = Nil
                ELSE ret.cert \in CertsByOwnerID(ret.user.ID)

C12_Witness ==
  /\ ret.op = "GetTenantCertificate"
  /\ ~ret.fault /\ ret.err = "" /\ ret.cert = Nil /\ ret.code = 200
  /\ CertsByOwnerID(ret.user.ID) = {}
  /\ certs # {}

\* C13: a call answered with an error has status 400 exactly when it is a tenant
\* request creation whose error is "certificate already exists for user" or
\* "certificate request is pending for user", and status 500 otherwise.
C13_ErrorStatus ==
  (ret.op # "none" /\ ret.err # "")
  => ret.code = IF /\ ret.op = "CreateTenantRequest"
                   /\ ret.err \in {"certificate already exists for user",
                                    "certificate request is pending for user"}
                THEN 400
                ELSE 500

C13_Witness ==
  /\ ret.op = "CreateTenantRequest"
  /\ ret.err = "failed to check pending request: db error"
  /\ ret.code = 500

\* An approve call that has read its request as pending and has not answered yet.
ApprovePastCheck(p) ==
  proc[p].op = "Approve" /\ proc[p].pc \in {"approve_create", "approve_update"}

\* C14: an approve call that has read its request as pending is answered with
\* success and its certificate stored, whatever other calls did since; when
\* another approve has made the request valid in the meantime, the call leaves
\* a second certificate of the same name and owner.
C14_DoubleApproveBothSucceed ==
  [][\A p \in Procs :
       (ApprovePastCheck(p) /\ proc'[p].pc = "idle")
       => /\ ret'.op = "Approve" /\ ret'.err = ""
          /\ ret'.cert \in certs'
          /\ (\E r \in ReqByID(proc[p].id) : r.Status = CertificateStatusValid)
               => \E c \in certs' : /\ c.ID # ret'.cert.ID
                                     /\ c.Name = ret'.cert.Name
                                     /\ c.OwnerID = ret'.cert.OwnerID]_vars

C14_Witness ==
  /\ ret.op = "Approve" /\ ret.err = ""
  /\ \A p \in Procs : proc[p].pc = "idle"
  /\ Cardinality(requests) = 1
  /\ \A r \in requests : r.ID = ret.id /\ r.Status = CertificateStatusValid
  /\ Cardinality(certs) = 2
  /\ \A c \in certs : c.Name = ret.cert.Name /\ c.OwnerID = ret.cert.OwnerID

\* C15: a tenant request creation that has passed both of its checks is
\* answered with success and its request stored as pending, whatever other
\* calls did since; when a pending request of the user has been stored in the
\* meantime, the user is left with two pending requests.
C15_DoubleTenantRequestBothSucceed ==
  [][\A p \in Procs :
       (proc[p].op = "CreateTenantRequest" /\ proc[p].pc = "tenant_create"
          /\ proc'[p].pc = "idle")
       => /\ ret'.op = "CreateTenantRequest" /\ ret'.err = ""
          /\ ret'.req \in requests'
          /\ ret'.req.Status = CertificateStatusPending
          /\ ret'.req.UserID = proc[p].user.ID
          /\ PendingRequestsByUserID(proc[p].user.ID) # {}
               => Cardinality({r \in requests' :
                                 /\ r.UserID = proc[p].user.ID
                                 /\ r.Status = CertificateStatusPending}) >= 2]_vars

C15_Witness ==
  /\ ret.op = "CreateTenantRequest" /\ ret.err = ""
  /\ \A p \in Procs : proc[p].pc = "idle"
  /\ certs = {}
  /\ Cardinality(requests) = 2
  /\ \A r \in requests : r.UserID = ret.user.ID /\ r.Status = CertificateStatusPending

C17_RevokeFrame ==
  [][/\ \A p \in Procs :
          (proc[p].op = "Revoke" /\ proc[p].pc = "save_cert" /\ proc'[p].pc = "idle")
          => /\ requests' = requests
             /\ \E c \in CertByID(proc[p].id) :
                  certs' = (certs \ {c})
                             \cup {[c EXCEPT !.Status = CertificateStatusRevoked]}
     /\ (ret'.op = "Revoke" /\ \A p \in Procs : proc[p].pc = "idle")
        => ret'.err # "" /\ certs' = certs /\ requests' = requests]_vars

\* C17 as amended: a RevokeCertificate call leaves the requests as they were;
\* when it returns no error the certificate existed and is now revoked, its
\* other fields and the other certificates as they were; when it returns an
\* error the lookup or the update failed, or there is no such certificate, and
\* the certificates are as they were.
C17_RevokeFrameUnlessFailed ==
  ret.op = "Revoke"
  => /\ requests = pre.requests
     /\ IF ret.err = ""
        THEN \E c \in pre.certs :
               /\ c.ID = ret.id
               /\ certs = (pre.certs \ {c})
                            \cup {[c EXCEPT !.Status = CertificateStatusRevoked]}
        ELSE /\ certs = pre.certs
             /\ ret.fault \/ \A c \in pre.certs : c.ID # ret.id

C17_Witness ==
  /\ ret.op = "Revoke" /\ ret.err = ""
  /\ \E c \in pre.certs :
       /\ c.ID = ret.id
       /\ c.Status = CertificateStatusExpiring
       /\ c.Content = "PEM"
  /\ \E c \in certs :
       c.ID = ret.id /\ c.Status = CertificateStatusRevoked /\ c.Content = "PEM"
  /\ \E c \in certs : c.ID # ret.id
  /\ requests # {}

\* C18: in every step, a stored certificate whose status is revoked is still
\* revoked afterwards if it is still stored.
C18_RevokedStaysRevoked ==
  [][\A c \in certs :
       c.Status = CertificateStatusRevoked
         => \A c2 \in certs' : c2.ID = c.ID => c2.Status = CertificateStatusRevoked]_vars

\* C19: while no approve or reject call is in progress, a rejected request has
\* no certificate created from it. Certificates do not name their request, and
\* under SpecConc every certificate of a user comes from an approve call on
\* one of the user's requests; so, as the stored rows show it: a user whose
\* requests are all rejected owns no certificate.
C19_RejectedRequestHasNoCertificate ==
  (\A p \in Procs : proc[p].op \notin {"Approve", "Reject"})
  => \A u \in Users :
       (/\ \E r \in requests : r.UserID = u.ID
        /\ \A r \in requests :
             r.UserID = u.ID => r.Status = CertificateStatusRejected)
       => CertsByOwnerID(u.ID) = {}

====
